---- MODULE Spec2Model ----
(***************************************************************************)
(* A model of gmail_archiver.py: main() authenticates (authenticate_gmail),*)
(* lists the INBOX (fetch_inbox_emails) and archives every listed message  *)
(* (archive_emails).  The token file, the client configuration file, the   *)
(* OAuth library and the remote mailbox are the environment: each of their *)
(* answers is a nondeterministic choice at the step that asks for it.      *)
(***************************************************************************)
EXTENDS Integers, Sequences, FiniteSets, TLC

\* ------------------------------------------------------------------ bounds
\* Longest continuation chain (number of pages) the mailbox serves: three
\* pages let a page without messages sit between a page with messages and
\* the last page.
MaxPages == 3
\* Largest number of message entries over all pages of the chain, and the
\* longest list handed to archive_emails when it is called directly.
MaxMsgs == 2

\* Message identifiers of the remote mailbox.
Ids == {"m1", "m2"}

\* ------------------------------------------------------------ value spaces
\* `creds is None`
NoCreds == [src |-> "none", valid |-> FALSE, expired |-> FALSE, refresh_token |-> FALSE]

\* What Credentials.from_authorized_user_file can yield: .valid implies not
\* .expired; every other combination of the three fields read by the code.
FileCreds ==
    { c \in [src : {"file"}, valid : BOOLEAN, expired : BOOLEAN, refresh_token : BOOLEAN] :
        c.valid => ~c.expired }

\* What flow.run_local_server can return when it returns a credential.
GrantCreds ==
    { [src |-> "grant", valid |-> v, expired |-> ~v, refresh_token |-> TRUE] : v \in BOOLEAN }

\* creds.refresh(Request()) mutates the loaded object in place; when it does
\* not raise, the object carries a new token whose validity the final check
\* of authenticate_gmail still reads.
Refreshed(c, v) == [src |-> "refresh", valid |-> v, expired |-> ~v, refresh_token |-> c.refresh_token]

\* token.json: absent, present but unparsable, or holding a credential.
TokenAbsent == [state |-> "absent", creds |-> NoCreds]
TokenCorrupt == [state |-> "corrupt", creds |-> NoCreds]
TokenHolding(c) == [state |-> "ok", creds |-> c]
TokenFiles == {TokenAbsent, TokenCorrupt} \cup {TokenHolding(c) : c \in FileCreds}

\* `service` as returned by build(), or None.
NoService == [built |-> FALSE, creds |-> NoCreds]
ServiceFor(c) == [built |-> TRUE, creds |-> c]

RECURSIVE SeqsUpTo(_, _)
SeqsUpTo(S, n) ==
    IF n = 0 THEN {<<>>}
    ELSE LET shorter == SeqsUpTo(S, n - 1)
         IN  shorter \cup { Append(s, x) : s \in {t \in shorter : Len(t) = n - 1}, x \in S }

\* One response of messages.list: the `messages` key may be absent; when
\* present it holds the entries of the page (possibly none).
PagesUpTo(b) ==
    {[key |-> FALSE, msgs |-> <<>>]} \cup {[key |-> TRUE, msgs |-> s] : s \in SeqsUpTo(Ids, b)}

\* Continuation chains of exactly n pages holding at most b entries in all.
\* Page k carries a nextPageToken iff k is not the last page of the chain.
RECURSIVE ChainsOf(_, _)
ChainsOf(n, b) ==
    IF n = 0 THEN {<<>>}
    ELSE UNION { { <<p>> \o rest : rest \in ChainsOf(n - 1, b - Len(p.msgs)) } : p \in PagesUpTo(b) }

Mailboxes == UNION { ChainsOf(n, MaxMsgs) : n \in 1..MaxPages }

\* Labels a message of the mailbox may carry.
Labels == {"INBOX", "UNREAD"}

\* messages.list(labelIds=['INBOX']) serves the messages that carry INBOX:
\* the identifiers on the pages of the chain are those of the messages
\* labelled INBOX when the run starts.  Of the other labels, m1 is UNREAD.
ListedLabels(ch) ==
    [m \in Ids |->
        (IF \E k \in DOMAIN ch : \E j \in DOMAIN ch[k].msgs : ch[k].msgs[j] = m
         THEN {"INBOX"} ELSE {})
        \cup (IF m = "m1" THEN {"UNREAD"} ELSE {})]

\* All entries of pages 1..k of a chain, in page order.
RECURSIVE Flatten(_, _)
Flatten(ch, k) == IF k = 0 THEN <<>> ELSE Flatten(ch, k - 1) \o ch[k].msgs

\* ------------------------------------------------------------------- state
VARIABLES
    entry,          \* which function the run calls: "main" or "archive_emails"
    pc,             \* position in the code
    \* environment
    tokenFile,      \* content of token.json
    tokenFile0,     \* content of token.json when the run started
    configExists,   \* os.path.exists('credentials.json')
    pages,          \* the continuation chain the mailbox serves
    labels,         \* the labels each message of the mailbox carries
    labels0,        \* the labels when the run started
    \* authenticate_gmail
    authCalls,      \* calls of authenticate_gmail
    creds,
    creds_were_modified_and_need_saving,
    service,        \* main's `service` once authenticate_gmail has returned
    authOutcome,    \* how authenticate_gmail ended ("" while it has not)
    refreshCalls,   \* calls of creds.refresh
    refreshRaised,  \* creds.refresh raised
    grantCalls,     \* calls of flow.run_local_server
    grantResult,    \* what run_local_server returned (NoCreds: nothing)
    writeCalls,     \* attempts to write token.json
    writeRaised,    \* the write of token.json raised
    buildCalls,     \* calls of build()
    \* fetch_inbox_emails
    fetchCalls,     \* calls of fetch_inbox_emails
    request,        \* index of the page `request` asks for; 0 is None
    message_ids,
    pageCalls,      \* calls of request.execute()
    fetchFailed,    \* an execute() raised
    inbox_message_ids, \* main's `inbox_message_ids`
    \* archive_emails
    archiveCalls,   \* calls of archive_emails
    archService,    \* its `service` argument
    archInput,      \* its `message_ids` argument
    i,              \* index of the next item of the for loop (1-based)
    archived_count,
    modifyCalls,    \* ids of the modify requests executed, in order
    outcomes,       \* per modify request: TRUE when execute() did not raise
    archResult      \* value returned by archive_emails (-1: not returned)

envVars == <<tokenFile0, configExists, pages, labels0, entry>>
authVars == <<authCalls, writeRaised, tokenFile, creds, creds_were_modified_and_need_saving, service, authOutcome,
              refreshCalls, refreshRaised, grantCalls, grantResult, writeCalls, buildCalls>>
fetchVars == <<fetchCalls, request, message_ids, pageCalls, fetchFailed, inbox_message_ids>>
archVars == <<archiveCalls, archService, archInput, i, archived_count, modifyCalls, outcomes, archResult,
              labels>>
vars == <<pc, envVars, authVars, fetchVars, archVars>>

\* ------------------------------------------------------------------- Init
InitCommon ==
    /\ creds = NoCreds
    /\ creds_were_modified_and_need_saving = FALSE
    /\ authOutcome = ""
    /\ refreshCalls = 0
    /\ refreshRaised = FALSE
    /\ grantCalls = 0
    /\ grantResult = NoCreds
    /\ writeCalls = 0
    /\ writeRaised = FALSE
    /\ authCalls = 0
    /\ buildCalls = 0
    /\ fetchCalls = 0
    /\ request = 0
    /\ message_ids = <<>>
    /\ pageCalls = 0
    /\ fetchFailed = FALSE
    /\ inbox_message_ids = <<>>
    /\ i = 1
    /\ archived_count = 0
    /\ modifyCalls = <<>>
    /\ outcomes = <<>>
    /\ archResult = -1

\* A run of the script: main() with any token file, with or without
\* credentials.json, against any mailbox.
InitMain ==
    /\ entry = "main"
    /\ pc = "main_start"
    /\ tokenFile0 \in TokenFiles
    /\ tokenFile = tokenFile0
    /\ configExists \in BOOLEAN
    /\ pages \in Mailboxes
    /\ labels0 = ListedLabels(pages)
    /\ labels = labels0
    /\ service = NoService
    /\ archiveCalls = 0
    /\ archService = NoService
    /\ archInput = <<>>
    /\ InitCommon

\* archive_emails called on its own with a built service and any list,
\* against messages carrying any labels.
InitArchive ==
    /\ entry = "archive_emails"
    /\ pc = "archive_start"
    /\ tokenFile0 = TokenAbsent
    /\ tokenFile = tokenFile0
    /\ configExists = FALSE
    /\ pages = <<[key |-> FALSE, msgs |-> <<>>]>>
    /\ labels0 \in [Ids -> SUBSET Labels]
    /\ labels = labels0
    /\ service = NoService
    /\ archiveCalls = 1
    /\ archService = ServiceFor(NoCreds)
    /\ archInput \in SeqsUpTo(Ids, MaxMsgs)
    /\ InitCommon

Init == InitMain \/ InitArchive

\* ------------------------------------------------------ authenticate_gmail
\* authenticate_gmail returns `result` to main: `service = authenticate_gmail()`.
AuthReturn(result, outcome) ==
    /\ service' = result
    /\ authOutcome' = outcome
    /\ pc' = "main_auth"

\* Lines 214-216: main calls authenticate_gmail().
MainStart ==
    /\ pc = "main_start"
    /\ authCalls' = authCalls + 1
    /\ pc' = "auth_load"
    /\ UNCHANGED <<envVars, fetchVars, archVars, writeRaised, tokenFile, creds,
                   creds_were_modified_and_need_saving, service, authOutcome, refreshCalls,
                   refreshRaised, grantCalls, grantResult, writeCalls, buildCalls>>

\* A token.json that cannot be loaded ends authenticate_gmail.
LoadTokenFatal ==
    /\ pc = "auth_load"
    /\ creds' = IF tokenFile.state = "ok" THEN tokenFile.creds ELSE NoCreds
    /\ creds_were_modified_and_need_saving' = FALSE
    /\ IF tokenFile.state = "corrupt"
       THEN AuthReturn(NoService, "load_error")
       ELSE /\ pc' = "auth_check"
            /\ UNCHANGED <<service, authOutcome>>
    /\ UNCHANGED <<envVars, fetchVars, archVars, authCalls, writeRaised, tokenFile, refreshCalls,
                   refreshRaised, grantCalls, grantResult, writeCalls, buildCalls>>

\* Lines 56-65: creds = None; if token.json exists, load it; a load that
\* raises leaves creds = None.
LoadToken ==
    /\ pc = "auth_load"
    /\ creds' = IF tokenFile.state = "ok" THEN tokenFile.creds ELSE NoCreds
    /\ creds_were_modified_and_need_saving' = FALSE
    /\ pc' = "auth_check"
    /\ UNCHANGED <<envVars, fetchVars, archVars, authCalls, writeRaised, tokenFile, service, authOutcome, refreshCalls,
                   refreshRaised, grantCalls, grantResult, writeCalls, buildCalls>>

\* An expired credential is refreshed whether or not it has a refresh token.
RefreshableIfExpired(c) == c.expired

\* Line 70: `creds.expired and creds.refresh_token`.
Refreshable(c) == c.expired /\ c.refresh_token

\* A loaded credential with a refresh token is refreshed even when valid.
CheckCredsEagerRefresh ==
    /\ pc = "auth_check"
    /\ IF creds = NoCreds
       THEN /\ pc' = "auth_flow_check"
            /\ creds' = creds
       ELSE IF creds.refresh_token
            THEN /\ pc' = "auth_refresh"
                 /\ creds' = creds
            ELSE /\ pc' = "auth_flow_check"
                 /\ creds' = IF creds.valid THEN creds ELSE NoCreds
    /\ UNCHANGED <<envVars, fetchVars, archVars, authCalls, writeRaised, tokenFile, creds_were_modified_and_need_saving,
                   service, authOutcome, refreshCalls, refreshRaised, grantCalls, grantResult,
                   writeCalls, buildCalls>>

\* Lines 67-70 and 79-81: a valid credential is kept, an expired one with a
\* refresh token goes to the refresh, any other loaded credential is
\* nullified; with nothing loaded the block is skipped.
CheckCreds ==
    /\ pc = "auth_check"
    /\ IF creds = NoCreds
       THEN /\ pc' = "auth_flow_check"
            /\ creds' = creds
       ELSE IF creds.valid
            THEN /\ pc' = "auth_flow_check"
                 /\ creds' = creds
            ELSE IF Refreshable(creds)
                 THEN /\ pc' = "auth_refresh"
                      /\ creds' = creds
                 ELSE /\ pc' = "auth_flow_check"
                      /\ creds' = NoCreds
    /\ UNCHANGED <<envVars, fetchVars, archVars, authCalls, writeRaised, tokenFile, creds_were_modified_and_need_saving,
                   service, authOutcome, refreshCalls, refreshRaised, grantCalls, grantResult,
                   writeCalls, buildCalls>>

\* creds.refresh raised and the loaded credential is kept.
AfterRefreshRaisedKept(c) == c

\* Line 78: what is left in `creds` after creds.refresh raised.
AfterRefreshRaised(c) == NoCreds

\* The refreshed token is not marked for saving.
AfterRefreshNotSaved == FALSE

\* Line 75: the flag after a refresh that did not raise.
AfterRefreshNeedsSaving == TRUE

\* Lines 71-78: creds.refresh(Request()) either returns, and the token is
\* marked for saving, or raises, and creds is nullified.
RefreshToken ==
    /\ pc = "auth_refresh"
    /\ refreshCalls' = refreshCalls + 1
    /\ \/ \E v \in BOOLEAN :
            /\ creds' = Refreshed(creds, v)
            /\ creds_were_modified_and_need_saving' = AfterRefreshNeedsSaving
            /\ refreshRaised' = FALSE
       \/ /\ creds' = AfterRefreshRaised(creds)
          /\ refreshRaised' = TRUE
          /\ UNCHANGED creds_were_modified_and_need_saving
    /\ pc' = "auth_flow_check"
    /\ UNCHANGED <<envVars, fetchVars, archVars, authCalls, writeRaised, tokenFile, service, authOutcome, grantCalls,
                   grantResult, writeCalls, buildCalls>>

\* The existence of credentials.json is not looked at.
ConfigMissingIgnored(exists) == FALSE

\* Line 87: the new flow is given up when credentials.json does not exist.
ConfigMissing(exists) == ~exists

\* Lines 85-90: with no credential left, a new OAuth flow is needed; without
\* credentials.json authenticate_gmail returns None.
CheckConfig ==
    /\ pc = "auth_flow_check"
    /\ IF creds # NoCreds
       THEN /\ pc' = "auth_save"
            /\ UNCHANGED <<service, authOutcome>>
       ELSE IF ConfigMissing(configExists)
            THEN AuthReturn(NoService, "missing_config")
            ELSE /\ pc' = "auth_flow"
                 /\ UNCHANGED <<service, authOutcome>>
    /\ UNCHANGED <<envVars, fetchVars, archVars, authCalls, writeRaised, tokenFile, creds, creds_were_modified_and_need_saving,
                   refreshCalls, refreshRaised, grantCalls, grantResult, writeCalls, buildCalls>>

\* The interactive step is started again when it raised or returned nothing.
RunFlowRetrying ==
    /\ pc = "auth_flow"
    /\ \/ /\ \E o \in {"flow_file_not_found", "flow_error"} : AuthReturn(NoService, o)
          /\ UNCHANGED <<creds, creds_were_modified_and_need_saving, grantCalls, grantResult>>
       \/ /\ grantCalls' = grantCalls + 1
          /\ pc' = "auth_flow"
          /\ UNCHANGED <<creds, creds_were_modified_and_need_saving, grantResult, service, authOutcome>>
       \/ /\ grantCalls' = grantCalls + 1
          /\ \E c \in GrantCreds :
                /\ creds' = c
                /\ grantResult' = c
          /\ creds_were_modified_and_need_saving' = TRUE
          /\ pc' = "auth_save"
          /\ UNCHANGED <<service, authOutcome>>
    /\ UNCHANGED <<envVars, fetchVars, archVars, authCalls, writeRaised, tokenFile, refreshCalls, refreshRaised,
                   writeCalls, buildCalls>>

\* Lines 91-106: InstalledAppFlow.from_client_secrets_file may raise (the
\* file vanished: FileNotFoundError; anything else: Exception) before the
\* interactive step starts; flow.run_local_server may raise, return nothing
\* or return a credential.  Every raise returns None.
RunFlow ==
    /\ pc = "auth_flow"
    /\ \/ /\ \E o \in {"flow_file_not_found", "flow_error"} : AuthReturn(NoService, o)
          /\ UNCHANGED <<creds, creds_were_modified_and_need_saving, grantCalls, grantResult>>
       \/ /\ grantCalls' = grantCalls + 1
          /\ AuthReturn(NoService, "flow_error")
          /\ UNCHANGED <<creds, creds_were_modified_and_need_saving, grantResult>>
       \/ /\ grantCalls' = grantCalls + 1
          /\ pc' = "auth_save"
          /\ UNCHANGED <<creds, creds_were_modified_and_need_saving, grantResult, service, authOutcome>>
       \/ /\ grantCalls' = grantCalls + 1
          /\ \E c \in GrantCreds :
                /\ creds' = c
                /\ grantResult' = c
          /\ creds_were_modified_and_need_saving' = TRUE
          /\ pc' = "auth_save"
          /\ UNCHANGED <<service, authOutcome>>
    /\ UNCHANGED <<envVars, fetchVars, archVars, authCalls, writeRaised, tokenFile, refreshCalls, refreshRaised,
                   writeCalls, buildCalls>>

\* A write that raises drops the credential.
SaveTokenFatal ==
    /\ pc = "auth_save"
    /\ IF creds_were_modified_and_need_saving /\ creds # NoCreds
       THEN /\ writeCalls' = writeCalls + 1
            /\ \/ /\ tokenFile' = TokenHolding(creds)
                  /\ writeRaised' = FALSE
                  /\ creds' = creds
               \/ /\ tokenFile' \in {tokenFile, TokenCorrupt}
                  /\ writeRaised' = TRUE
                  /\ creds' = NoCreds
       ELSE UNCHANGED <<writeCalls, writeRaised, tokenFile, creds>>
    /\ pc' = "auth_final"
    /\ UNCHANGED <<envVars, fetchVars, archVars, authCalls, creds_were_modified_and_need_saving,
                   service, authOutcome, refreshCalls, refreshRaised, grantCalls, grantResult,
                   buildCalls>>

\* Whatever credential the run holds is written, modified or not.
SaveTokenAlways ==
    /\ pc = "auth_save"
    /\ IF creds # NoCreds
       THEN /\ writeCalls' = writeCalls + 1
            /\ \/ /\ tokenFile' = TokenHolding(creds)
                  /\ writeRaised' = FALSE
               \/ /\ tokenFile' \in {tokenFile, TokenCorrupt}
                  /\ writeRaised' = TRUE
       ELSE UNCHANGED <<writeCalls, writeRaised, tokenFile>>
    /\ pc' = "auth_final"
    /\ UNCHANGED <<envVars, fetchVars, archVars, authCalls, creds, creds_were_modified_and_need_saving,
                   service, authOutcome, refreshCalls, refreshRaised, grantCalls, grantResult,
                   buildCalls>>

\* Lines 109-117: a modified credential is written to token.json.  open()
\* may raise (file untouched); to_json()/write() may raise after open() has
\* truncated the file; the error is logged and the run goes on.
SaveToken ==
    /\ pc = "auth_save"
    /\ IF creds_were_modified_and_need_saving /\ creds # NoCreds
       THEN /\ writeCalls' = writeCalls + 1
            /\ \/ /\ tokenFile' = TokenHolding(creds)
                  /\ writeRaised' = FALSE
               \/ /\ tokenFile' \in {tokenFile, TokenCorrupt}
                  /\ writeRaised' = TRUE
       ELSE UNCHANGED <<writeCalls, writeRaised, tokenFile>>
    /\ pc' = "auth_final"
    /\ UNCHANGED <<envVars, fetchVars, archVars, authCalls, creds, creds_were_modified_and_need_saving,
                   service, authOutcome, refreshCalls, refreshRaised, grantCalls, grantResult,
                   buildCalls>>

\* The final check looks at the presence of a credential only.
CredsPresent(c) == c # NoCreds

\* Line 120: `not (not creds or not creds.valid)`.
CredsUsable(c) == c # NoCreds /\ c.valid

\* Lines 119-122: without a valid credential authenticate_gmail returns None.
FinalCheck ==
    /\ pc = "auth_final"
    /\ IF CredsUsable(creds)
       THEN /\ pc' = "auth_build"
            /\ UNCHANGED <<service, authOutcome>>
       ELSE AuthReturn(NoService, "no_valid_creds")
    /\ UNCHANGED <<envVars, fetchVars, archVars, authCalls, writeRaised, tokenFile, creds, creds_were_modified_and_need_saving,
                   refreshCalls, refreshRaised, grantCalls, grantResult, writeCalls, buildCalls>>

\* A build that raises is attempted a second time.
BuildServiceRetrying ==
    /\ pc = "auth_build"
    /\ buildCalls' = buildCalls + 1
    /\ \/ AuthReturn(ServiceFor(creds), "ok")
       \/ IF buildCalls = 0
          THEN UNCHANGED <<pc, service, authOutcome>>
          ELSE AuthReturn(NoService, "build_error")
    /\ UNCHANGED <<envVars, fetchVars, archVars, authCalls, writeRaised, tokenFile, creds, creds_were_modified_and_need_saving,
                   refreshCalls, refreshRaised, grantCalls, grantResult, writeCalls>>

\* Lines 124-133: build('gmail', 'v1', credentials=creds) returns the
\* service or raises (HttpError or any Exception), which returns None.
BuildService ==
    /\ pc = "auth_build"
    /\ buildCalls' = buildCalls + 1
    /\ \/ AuthReturn(ServiceFor(creds), "ok")
       \/ AuthReturn(NoService, "build_error")
    /\ UNCHANGED <<envVars, fetchVars, archVars, authCalls, writeRaised, tokenFile, creds, creds_were_modified_and_need_saving,
                   refreshCalls, refreshRaised, grantCalls, grantResult, writeCalls>>

\* ------------------------------------------------------ fetch_inbox_emails
\* fetch_inbox_emails returns `result` to main:
\* `inbox_message_ids = fetch_inbox_emails(service)`.
FetchReturn(result) ==
    /\ inbox_message_ids' = result
    /\ pc' = "main_fetched"

\* Lines 142-146: message_ids = []; the initial list request for INBOX.
FetchStart ==
    /\ pc = "fetch_start"
    /\ message_ids' = <<>>
    /\ request' = 1
    /\ pc' = "fetch_loop"
    /\ UNCHANGED <<envVars, authVars, archVars, fetchCalls, pageCalls, fetchFailed, inbox_message_ids>>

\* Line 149: response.get('messages', []).
Messages(response) == IF response.key THEN response.msgs ELSE <<>>

\* Identifiers already collected are not appended again.
ExtendNoDuplicates(ids, messages) ==
    ids \o SelectSeq(messages, LAMBDA m : \A k \in 1..Len(ids) : ids[k] # m)

\* Lines 154-155: message_ids.extend([msg['id'] for msg in messages]).
Extend(ids, messages) == ids \o messages

\* The initial list request is issued again instead of list_next.
ListNextInitialAgain(req, chain) == 1

\* Line 159: list_next(previous_request, previous_response) is a request for
\* the following page when the response carries a nextPageToken, else None.
ListNext(req, chain) == IF req < Len(chain) THEN req + 1 ELSE 0

\* The identifiers collected so far are returned on an error.
OnFetchErrorPartial(ids) == ids

\* Lines 163-168: both except clauses return [].
OnFetchError(ids) == <<>>

\* A page without messages does not leave the loop.
FetchPageWithoutBreak ==
    /\ pc = "fetch_loop"
    /\ request # 0
    /\ pageCalls' = pageCalls + 1
    /\ \/ /\ fetchFailed' = TRUE
          /\ FetchReturn(OnFetchError(message_ids))
          /\ UNCHANGED <<message_ids, request>>
       \/ /\ UNCHANGED fetchFailed
          /\ LET response == pages[request]
                 messages == Messages(response)
             IN  /\ message_ids' = Extend(message_ids, messages)
                 /\ request' = ListNext(request, pages)
                 /\ IF request' = 0
                    THEN FetchReturn(message_ids')
                    ELSE /\ pc' = "fetch_loop"
                         /\ UNCHANGED inbox_message_ids
    /\ UNCHANGED <<envVars, authVars, archVars, fetchCalls>>

\* Lines 147-168, one pass of the while loop: request.execute() raises, and
\* the function returns []; or it answers a page without messages, and the
\* loop breaks; or the page is appended and list_next gives the next
\* request.  Leaving the loop returns message_ids (lines 161-162).
FetchPage ==
    /\ pc = "fetch_loop"
    /\ request # 0
    /\ pageCalls' = pageCalls + 1
    /\ \/ /\ fetchFailed' = TRUE
          /\ FetchReturn(OnFetchError(message_ids))
          /\ UNCHANGED <<message_ids, request>>
       \/ /\ UNCHANGED fetchFailed
          /\ LET response == pages[request]
                 messages == Messages(response)
             IN  IF messages = <<>>
                 THEN /\ FetchReturn(message_ids)
                      /\ UNCHANGED <<message_ids, request>>
                 ELSE /\ message_ids' = Extend(message_ids, messages)
                      /\ request' = ListNext(request, pages)
                      /\ IF request' = 0
                         THEN FetchReturn(message_ids')
                         ELSE /\ pc' = "fetch_loop"
                              /\ UNCHANGED inbox_message_ids
    /\ UNCHANGED <<envVars, authVars, archVars, fetchCalls>>

\* ---------------------------------------------------------- archive_emails
\* An empty list enters the loop like any other.
ArchiveStartWithoutShortCut ==
    /\ pc = "archive_start"
    /\ pc' = "archive_loop"
    /\ i' = 1
    /\ archived_count' = 0
    /\ UNCHANGED <<envVars, authVars, fetchVars, archiveCalls, archService, archInput,
                   modifyCalls, outcomes, labels, archResult>>

\* Lines 178-183: an empty list returns 0 at once; else the loop starts.
ArchiveStart ==
    /\ pc = "archive_start"
    /\ IF archInput = <<>>
       THEN /\ archResult' = 0
            /\ pc' = "archive_returned"
       ELSE /\ pc' = "archive_loop"
            /\ UNCHANGED archResult
    /\ i' = 1
    /\ archived_count' = 0
    /\ UNCHANGED <<envVars, authVars, fetchVars, archiveCalls, archService, archInput,
                   modifyCalls, outcomes, labels>>

\* The loop is left at the first item that fails.
NextIndexStopOnError(idx, ok, n) == IF ok THEN idx + 1 ELSE n + 1

\* Lines 203-207: both except clauses log and fall through to the next item.
NextIndex(idx, ok, n) == idx + 1

\* Every item is counted, whether its request returned or raised.
CountAll(count, ok) == count + 1

\* Line 201: archived_count += 1 is reached only when execute() returned.
Count(count, ok) == IF ok THEN count + 1 ELSE count

\* The request also marks the message as read.
RemoveLabelIdsWithUnread == {"INBOX", "UNREAD"}

\* Line 195: body = {'removeLabelIds': ['INBOX']}.
RemoveLabelIds == {"INBOX"}

\* messages.modify(id, body): a request that returns has removed the labels
\* of body['removeLabelIds'] from that message and nothing else; a request
\* that raised has changed nothing.
Modify(lbls, id, remove, ok) ==
    IF ok THEN [lbls EXCEPT ![id] = @ \ remove] ELSE lbls

\* Lines 188-207, one pass of the for loop: the modify request removing
\* INBOX from message_ids[i] is executed; it returns or raises.
ArchiveOne ==
    /\ pc = "archive_loop"
    /\ i <= Len(archInput)
    /\ \E ok \in BOOLEAN :
          /\ modifyCalls' = Append(modifyCalls, archInput[i])
          /\ outcomes' = Append(outcomes, ok)
          /\ labels' = Modify(labels, archInput[i], RemoveLabelIds, ok)
          /\ archived_count' = Count(archived_count, ok)
          /\ i' = NextIndex(i, ok, Len(archInput))
    /\ UNCHANGED <<pc, envVars, authVars, fetchVars, archiveCalls, archService, archInput, archResult>>

\* Lines 209-210: after the last item, return archived_count.
ArchiveReturn ==
    /\ pc = "archive_loop"
    /\ i > Len(archInput)
    /\ archResult' = archived_count
    /\ pc' = "archive_returned"
    /\ UNCHANGED <<envVars, authVars, fetchVars, archiveCalls, archService, archInput, i,
                   archived_count, modifyCalls, outcomes, labels>>

\* -------------------------------------------------------------------- main
\* main goes on whatever authenticate_gmail returned.
AuthFailedIgnored(svc) == FALSE

\* Line 218: `if not service`.
AuthFailed(svc) == ~svc.built

\* Lines 218-222: without a service main returns; else it calls
\* fetch_inbox_emails(service).
MainAfterAuth ==
    /\ pc = "main_auth"
    /\ IF AuthFailed(service)
       THEN /\ pc' = "done"
            /\ UNCHANGED fetchCalls
       ELSE /\ pc' = "fetch_start"
            /\ fetchCalls' = fetchCalls + 1
    /\ UNCHANGED <<envVars, authVars, archVars, request, message_ids, pageCalls, fetchFailed,
                   inbox_message_ids>>

\* main archives whatever the listing returned.
NothingToArchiveIgnored(ids) == FALSE

\* Line 224: `if not inbox_message_ids`.
NothingToArchive(ids) == ids = <<>>

\* Lines 224-228: with no identifiers main returns; else it calls
\* archive_emails(service, inbox_message_ids).
MainAfterFetch ==
    /\ pc = "main_fetched"
    /\ IF NothingToArchive(inbox_message_ids)
       THEN /\ pc' = "done"
            /\ UNCHANGED <<archiveCalls, archService, archInput>>
       ELSE /\ pc' = "archive_start"
            /\ archiveCalls' = archiveCalls + 1
            /\ archService' = service
            /\ archInput' = inbox_message_ids
    /\ UNCHANGED <<envVars, authVars, fetchVars, i, archived_count, modifyCalls, outcomes, archResult,
                   labels>>

\* Lines 228-230: archive_emails has returned (its value is dropped) and
\* main ends; a direct call of archive_emails ends here as well.
MainFinish ==
    /\ pc = "archive_returned"
    /\ pc' = "done"
    /\ UNCHANGED <<envVars, authVars, fetchVars, archVars>>

\* ----------------------------------------------------------- specification
Next ==
    \/ MainStart
    \/ LoadToken
    \/ CheckCreds
    \/ RefreshToken
    \/ CheckConfig
    \/ RunFlow
    \/ SaveToken
    \/ FinalCheck
    \/ BuildService
    \/ MainAfterAuth
    \/ FetchStart
    \/ FetchPage
    \/ MainAfterFetch
    \/ ArchiveStart
    \/ ArchiveOne
    \/ ArchiveReturn
    \/ MainFinish

Spec == Init /\ [][Next]_vars

\* The run is sequential: whichever step is enabled is eventually taken.
FairSpec == Spec /\ WF_vars(Next)

\* ------------------------------------------------------------ properties
\* authenticate_gmail has returned to main.
AuthReturned == authOutcome # ""

\* fetch_inbox_emails has returned to main.
FetchReturned == fetchCalls = 1 /\ pc \in {"main_fetched", "archive_start", "archive_loop", "archive_returned", "done"}

\* archive_emails has returned.
ArchiveReturned == archResult # -1

\* The run started from a token file holding an expired credential with a
\* refresh token.
LoadedExpiredRefreshable ==
    /\ tokenFile0.state = "ok"
    /\ ~tokenFile0.creds.valid
    /\ tokenFile0.creds.expired
    /\ tokenFile0.creds.refresh_token

\* Indices of the modify requests that raised.
FailedItems == { k \in DOMAIN outcomes : ~outcomes[k] }

\* C1: a listing that ends without an error has followed the chain to its
\* end: every identifier of every page of the chain is in the returned
\* sequence, pages without messages contributing nothing.
C1_ListsEveryPage ==
    (FetchReturned /\ ~fetchFailed) => inbox_message_ids = Flatten(pages, Len(pages))

\* C2: when every page of the chain holds exactly one entry and no request
\* fails, the listing returns the entries of pages 1..N in that order, a
\* repeated identifier kept each time it is served, after exactly N page
\* requests.
OneItemPerPage == \A k \in DOMAIN pages : pages[k].key /\ Len(pages[k].msgs) = 1

C2_OnePerPageInOrder ==
    (FetchReturned /\ ~fetchFailed /\ OneItemPerPage) =>
        /\ Len(inbox_message_ids) = Len(pages)
        /\ \A k \in DOMAIN pages : inbox_message_ids[k] = pages[k].msgs[1]
        /\ pageCalls = Len(pages)

C2_Witness ==
    /\ FetchReturned /\ ~fetchFailed /\ OneItemPerPage
    /\ Len(pages) = 2
    /\ inbox_message_ids = <<"m2", "m2">>

\* C3: the loop issues the modify requests for items 1..i-1 in input order
\* whatever failed; and when exactly one of the K requests has raised,
\* archive_emails has issued all K requests and returns K-1.
C3_OneFailureTolerated ==
    /\ pc = "archive_loop" =>
          /\ i <= Len(archInput) + 1
          /\ modifyCalls = SubSeq(archInput, 1, i - 1)
    /\ (ArchiveReturned /\ Cardinality(FailedItems) = 1) =>
          /\ archResult = Len(archInput) - 1
          /\ modifyCalls = archInput

C3_Witness ==
    /\ ArchiveReturned
    /\ Len(archInput) = 2
    /\ FailedItems = {1}
    /\ archResult = 1

\* C4 as stated: after a refresh that raised, the grant flow has been invoked
\* exactly once and the service is built with the credential it yielded.
C4_GrantAlwaysFollows ==
    (AuthReturned /\ LoadedExpiredRefreshable /\ refreshRaised) =>
        /\ grantCalls = 1
        /\ grantResult # NoCreds
        /\ service = ServiceFor(grantResult)

\* C4 amended: after a refresh that raised, the grant flow is invoked at most
\* once, and exactly once when credentials.json exists and the flow does not
\* raise; a service that authenticate_gmail then returns is built with the
\* credential the grant flow yielded.
C4_GrantFollowsWhenConfigured ==
    (AuthReturned /\ LoadedExpiredRefreshable /\ refreshRaised) =>
        /\ grantCalls <= 1
        /\ (configExists /\ authOutcome \notin {"flow_file_not_found", "flow_error"}) => grantCalls = 1
        /\ ~configExists => (grantCalls = 0 /\ authOutcome = "missing_config")
        /\ service.built =>
              /\ grantCalls = 1
              /\ grantResult \in GrantCreds
              /\ service = ServiceFor(grantResult)

C4_Witness ==
    /\ AuthReturned /\ LoadedExpiredRefreshable /\ refreshRaised
    /\ grantCalls = 1
    /\ service.built
    /\ service.creds = grantResult

\* C5 as stated: after a refresh that returned (here: with a credential
\* that is valid again), the grant flow has not been invoked and token.json
\* holds the refreshed credential.
RefreshReturned == refreshCalls = 1 /\ ~refreshRaised

C5_RefreshedTokenStored ==
    (AuthReturned /\ LoadedExpiredRefreshable /\ RefreshReturned /\ creds.valid) =>
        /\ grantCalls = 0
        /\ tokenFile = TokenHolding(creds)

\* C5 amended: after a refresh that returned, the grant flow is never invoked
\* and the refreshed credential is written to token.json in exactly one
\* attempt; token.json holds it unless that write raised.
C5_RefreshedTokenWriteAttempted ==
    /\ (LoadedExpiredRefreshable /\ RefreshReturned) => (grantCalls = 0 /\ pc # "auth_flow")
    /\ (AuthReturned /\ LoadedExpiredRefreshable /\ RefreshReturned) =>
          /\ creds.src = "refresh"
          /\ writeCalls = 1
          /\ ~writeRaised => tokenFile = TokenHolding(creds)

C5_Witness ==
    /\ AuthReturned /\ LoadedExpiredRefreshable /\ RefreshReturned
    /\ service.built
    /\ tokenFile = TokenHolding(creds)
    /\ tokenFile # tokenFile0

\* C6: authenticate_gmail returns a service only with a credential whose
\* validity flag is true at the final check, and that service is built with
\* it; with the credential absent or not valid it returns None, and build()
\* is not even called.
C6_ServiceOnlyIfValid ==
    /\ pc = "auth_build" => (creds # NoCreds /\ creds.valid)
    /\ AuthReturned =>
          /\ service.built => (creds # NoCreds /\ creds.valid /\ service = ServiceFor(creds))
          /\ (creds = NoCreds \/ ~creds.valid) => (service = NoService /\ buildCalls = 0)

C6_Witness ==
    /\ AuthReturned
    /\ creds.src = "refresh"
    /\ ~creds.valid
    /\ service = NoService

\* C7 as stated: without credentials.json and without a valid credential,
\* authenticate_gmail ends with the missing-configuration outcome and the run
\* has made no network call: no refresh, no grant flow, no list, no modify.
C7_MissingConfigBeforeAnyCall ==
    (AuthReturned /\ ~configExists /\ (creds = NoCreds \/ ~creds.valid)) =>
        /\ authOutcome = "missing_config"
        /\ refreshCalls = 0
        /\ grantCalls = 0
        /\ pageCalls = 0
        /\ modifyCalls = <<>>

\* C7 amended: without credentials.json, a run left with no credential after
\* the load and the refresh ends with the missing-configuration outcome, and
\* no grant flow, no list and no modify request occurs in it; the one network
\* call that can precede the abort is a single refresh request that raised.
\* That outcome occurs only without credentials.json.
C7_MissingConfigBeforeGrantAndMailbox ==
    /\ authOutcome = "missing_config" => ~configExists
    /\ (AuthReturned /\ ~configExists /\ creds = NoCreds) =>
          /\ authOutcome = "missing_config"
          /\ service = NoService
          /\ grantCalls = 0
          /\ fetchCalls = 0
          /\ pageCalls = 0
          /\ archiveCalls = 0
          /\ modifyCalls = <<>>
          /\ refreshCalls = (IF refreshRaised THEN 1 ELSE 0)

C7_Witness ==
    /\ pc = "done"
    /\ authOutcome = "missing_config"
    /\ refreshCalls = 1
    /\ refreshRaised

\* C8 as stated, for the runs in which authentication fails at the service
\* build: when authentication yields nothing usable and main aborts, the run
\* has had no side effect: token.json has not been written and no list or
\* modify request has been issued.
MainAbortedOnAuth == entry = "main" /\ pc = "done" /\ ~service.built

C8_AbortWithoutSideEffects ==
    (MainAbortedOnAuth /\ authOutcome = "build_error") =>
        /\ writeCalls = 0
        /\ tokenFile = tokenFile0
        /\ pageCalls = 0
        /\ modifyCalls = <<>>

\* C8 amended: when authentication yields nothing usable and main aborts, no
\* list and no modify request has been issued; token.json may have been
\* written, but only by a run whose refresh returned or whose grant flow
\* yielded a credential and which then failed the final validity check or
\* the service build; otherwise token.json is as it was.
C8_AbortWithoutMailboxRequests ==
    MainAbortedOnAuth =>
        /\ fetchCalls = 0
        /\ pageCalls = 0
        /\ archiveCalls = 0
        /\ modifyCalls = <<>>
        /\ writeCalls > 0 =>
              /\ authOutcome \in {"no_valid_creds", "build_error"}
              /\ RefreshReturned \/ grantResult # NoCreds
        /\ writeCalls = 0 => tokenFile = tokenFile0

C8_Witness ==
    /\ MainAbortedOnAuth
    /\ authOutcome = "build_error"
    /\ writeCalls = 1
    /\ tokenFile # tokenFile0

\* C9: main calls authenticate_gmail, fetch_inbox_emails and archive_emails
\* in that order, each at most once; the listing starts only with a service,
\* archiving starts only with a service and a non-empty listing that has
\* returned, and archive_emails is given that service and that listing.
C9_StepsInOrder ==
    entry = "main" =>
        /\ authCalls <= 1 /\ fetchCalls <= 1 /\ archiveCalls <= 1
        /\ (AuthReturned \/ fetchCalls = 1) => authCalls = 1
        /\ (fetchCalls = 1 \/ pageCalls > 0) => (AuthReturned /\ service.built)
        /\ ~service.built => (fetchCalls = 0 /\ archiveCalls = 0)
        /\ (archiveCalls = 1 \/ modifyCalls # <<>>) =>
              /\ FetchReturned
              /\ service.built
              /\ inbox_message_ids # <<>>
              /\ archService = service
              /\ archInput = inbox_message_ids
        /\ (FetchReturned /\ inbox_message_ids = <<>>) => archiveCalls = 0
        /\ (pc = "done" /\ service.built /\ inbox_message_ids # <<>>) => archiveCalls = 1

C9_Witness ==
    /\ entry = "main"
    /\ pc = "done"
    /\ archiveCalls = 1
    /\ archService = service
    /\ Len(pages) = 3
    /\ archInput = <<"m2", "m1">>

\* C10: once a page request has raised, the listing is over: it returns the
\* empty sequence whatever earlier pages had delivered, and the request that
\* raised is the last page request of the run.
C10_ErrorDiscardsListing ==
    fetchFailed =>
        /\ FetchReturned
        /\ inbox_message_ids = <<>>
        /\ pageCalls = request
        /\ archiveCalls = 0

C10_Witness ==
    /\ fetchFailed
    /\ pageCalls = 2
    /\ message_ids = <<"m1", "m2">>
    /\ inbox_message_ids = <<>>

\* C11: a page request that raises aborts the listing only: main receives the
\* empty sequence, as it does from a mailbox without messages, and ends the
\* run without calling archive_emails, so that no modify request is issued,
\* even when earlier pages had delivered identifiers.
ListingCameBackEmpty == fetchFailed \/ pages[1].msgs = <<>>

C11_ListingErrorEndsRunLikeEmpty ==
    (entry = "main" /\ FetchReturned /\ ListingCameBackEmpty) =>
        /\ inbox_message_ids = <<>>
        /\ pc \in {"main_fetched", "done"}
        /\ archiveCalls = 0
        /\ modifyCalls = <<>>
        /\ archResult = -1

C11_Witness ==
    /\ entry = "main"
    /\ pc = "done"
    /\ fetchFailed
    /\ message_ids # <<>>
    /\ modifyCalls = <<>>

\* C12: every modify request removes INBOX and nothing else from the message
\* it targets: a message with a request that returned carries its labels of
\* the start minus INBOX, and every message without one (its requests
\* raised, or it is not in the input) carries exactly its labels of the
\* start.
Archived(m) == \E k \in DOMAIN outcomes : outcomes[k] /\ modifyCalls[k] = m

C12_OnlyInboxRemoved ==
    \A m \in Ids :
        labels[m] = (IF Archived(m) THEN labels0[m] \ {"INBOX"} ELSE labels0[m])

C12_Witness ==
    /\ ArchiveReturned
    /\ archInput = <<"m1", "m2">>
    /\ outcomes = <<TRUE, FALSE>>
    /\ labels0["m1"] = {"INBOX", "UNREAD"}
    /\ labels["m1"] = {"UNREAD"}
    /\ labels["m2"] = {"INBOX"}

\* C13: the value archive_emails returns is the number of modify requests
\* that returned without raising: it lies between 0 and the length of the
\* input and equals that length exactly when no request raised; while the
\* loop runs, archived_count is that number for the items done so far.
SucceededItems == { k \in DOMAIN outcomes : outcomes[k] }

C13_ReturnsSuccessCount ==
    /\ pc = "archive_loop" => archived_count = Cardinality(SucceededItems)
    /\ ArchiveReturned =>
          /\ Len(outcomes) = Len(archInput)
          /\ archResult = Cardinality(SucceededItems)
          /\ archResult >= 0
          /\ archResult <= Len(archInput)
          /\ (archResult = Len(archInput)) <=> (\A k \in DOMAIN outcomes : outcomes[k])

C13_Witness ==
    /\ ArchiveReturned
    /\ outcomes = <<FALSE, TRUE>>
    /\ archResult = 1

\* C14: in a run of authenticate_gmail, whatever the token file held and
\* whatever raised, flow.run_local_server is called at most once.
C14_GrantAtMostOnce == grantCalls <= 1

C14_Witness ==
    /\ AuthReturned
    /\ refreshRaised
    /\ grantCalls = 1
    /\ authOutcome = "flow_error"

\* C15: a credential marked for saving is written to token.json in one
\* attempt (which stores it unless it raises), and the write, raising or
\* not, leaves the credential and the course of authenticate_gmail as they
\* are: with a valid credential the function goes on to build() and returns
\* the service built with it, whatever the write did.
AfterSave == pc \in {"auth_final", "auth_build"} \/ AuthReturned

C15_WriteFailureHarmless ==
    /\ [](( AfterSave /\ creds_were_modified_and_need_saving /\ creds # NoCreds) =>
            /\ writeCalls = 1
            /\ ~writeRaised => tokenFile = TokenHolding(creds))
    /\ [][pc = "auth_save" =>
            /\ creds' = creds
            /\ pc' = "auth_final"
            /\ service' = service
            /\ authOutcome' = authOutcome]_vars
    /\ []((AuthReturned /\ writeCalls = 1 /\ creds # NoCreds /\ creds.valid) =>
            /\ authOutcome \in {"ok", "build_error"}
            /\ authOutcome = "ok" => service = ServiceFor(creds))

C15_Witness ==
    /\ AuthReturned
    /\ writeCalls = 1
    /\ writeRaised
    /\ tokenFile = TokenCorrupt
    /\ service.built
    /\ service.creds = creds

\* C16: a loaded credential that is valid is used as it is: no refresh, no
\* grant flow, no write of token.json, and, with or without
\* credentials.json, the function goes on to build() with that credential.
LoadedValid == tokenFile0.state = "ok" /\ tokenFile0.creds.valid

C16_ValidTokenUsedAsIs ==
    (entry = "main" /\ LoadedValid) =>
        /\ refreshCalls = 0
        /\ grantCalls = 0
        /\ writeCalls = 0
        /\ tokenFile = tokenFile0
        /\ pc \notin {"auth_refresh", "auth_flow"}
        /\ AuthReturned =>
              /\ creds = tokenFile0.creds
              /\ buildCalls = 1
              /\ authOutcome \in {"ok", "build_error"}
              /\ authOutcome = "ok" => service = ServiceFor(tokenFile0.creds)

C16_Witness ==
    /\ AuthReturned
    /\ LoadedValid
    /\ tokenFile0.creds.refresh_token
    /\ ~configExists
    /\ service = ServiceFor(tokenFile0.creds)

\* C17 as stated: after a run of main in which authentication succeeded and
\* no list or modify request raised, no message of the mailbox carries INBOX
\* (the mailbox is changed by this run only).
C17_InboxEmptied ==
    (entry = "main" /\ pc = "done" /\ service.built /\ ~fetchFailed
        /\ \A k \in DOMAIN outcomes : outcomes[k]) =>
        \A m \in Ids : "INBOX" \notin labels[m]

\* C18: every run ends, whatever raises: each step brings the end nearer
\* (the steps left are bounded by the pages and the items left), the end is
\* reached from every position, and a run that entered the archive loop ends
\* only after a modify request for every item of its input.
StageOf(p) ==
    CASE p = "done" -> 0
      [] p = "archive_returned" -> 1
      [] p = "archive_loop" -> 2
      [] p = "archive_start" -> 3
      [] p = "main_fetched" -> 4
      [] p = "fetch_loop" -> 5
      [] p = "fetch_start" -> 6
      [] p = "main_auth" -> 7
      [] p = "auth_build" -> 8
      [] p = "auth_final" -> 9
      [] p = "auth_save" -> 10
      [] p = "auth_flow" -> 11
      [] p = "auth_flow_check" -> 12
      [] p = "auth_refresh" -> 13
      [] p = "auth_check" -> 14
      [] p = "auth_load" -> 15
      [] p = "main_start" -> 16

\* Passes of the loop at hand that are still to come.
PassesLeft ==
    CASE pc = "fetch_loop" -> Len(pages) + 1 - request
      [] pc = "archive_loop" -> Len(archInput) + 1 - i
      [] OTHER -> 0

StepsLeft == StageOf(pc) * (MaxPages + MaxMsgs + 2) + PassesLeft

C18_EveryRunEnds ==
    /\ [](PassesLeft >= 0 /\ PassesLeft < MaxPages + MaxMsgs + 2)
    /\ [][StepsLeft' < StepsLeft]_vars
    /\ <>(pc = "done")
    /\ []((pc = "done" /\ archiveCalls = 1) =>
            (ArchiveReturned /\ Len(modifyCalls) = Len(archInput)))

C18_Witness ==
    /\ entry = "main"
    /\ pc = "done"
    /\ refreshRaised
    /\ writeRaised
    /\ Len(pages) = 3
    /\ archInput = <<"m1", "m1">>
    /\ outcomes = <<FALSE, FALSE>>

\* C19: when the first response of the listing has no `messages` key or an
\* empty list, fetch_inbox_emails returns the empty sequence after exactly
\* one page request.
FirstResponseEmpty == pages[1].msgs = <<>>

C19_EmptyMailboxOneRequest ==
    (entry = "main" /\ FirstResponseEmpty) =>
        /\ pageCalls <= 1
        /\ message_ids = <<>>
        /\ (FetchReturned /\ ~fetchFailed) =>
              /\ inbox_message_ids = <<>>
              /\ pageCalls = 1

C19_Witness ==
    /\ entry = "main"
    /\ pc = "done"
    /\ ~fetchFailed
    /\ pages = <<[key |-> FALSE, msgs |-> <<>>], [key |-> TRUE, msgs |-> <<>>]>>
    /\ pageCalls = 1
    /\ inbox_message_ids = <<>>

\* C20: archive_emails called with an empty list returns 0 at once: it never
\* enters the loop and issues no modify request.
C20_EmptyInputShortCut ==
    (archiveCalls = 1 /\ archInput = <<>>) =>
        /\ pc \in {"archive_start", "archive_returned", "done"}
        /\ modifyCalls = <<>>
        /\ outcomes = <<>>
        /\ labels = labels0
        /\ pc # "archive_start" => archResult = 0

C20_Witness ==
    /\ entry = "archive_emails"
    /\ archInput = <<>>
    /\ pc = "archive_returned"
    /\ archResult = 0
    /\ modifyCalls = <<>>

\* C21: a grant flow that fails (the flow cannot be set up, the interactive
\* step raises, or it returns no credential) ends authenticate_gmail: the
\* function is past the flow for good with no credential, the interactive
\* step has run at most once, the only refresh of the run is one that raised
\* before the flow, token.json has not been written, build() is not called
\* and the function returns None.
GrantFlowFailed ==
    \/ authOutcome \in {"flow_file_not_found", "flow_error"}
    \/ grantCalls >= 1 /\ grantResult = NoCreds

C21_GrantFailureTerminal ==
    GrantFlowFailed =>
        /\ pc \in {"auth_save", "auth_final", "main_auth", "done"}
        /\ creds = NoCreds
        /\ grantCalls <= 1
        /\ refreshCalls = (IF refreshRaised THEN 1 ELSE 0)
        /\ writeCalls = 0
        /\ tokenFile = tokenFile0
        /\ buildCalls = 0
        /\ service = NoService
        /\ pc \in {"main_auth", "done"} =>
              authOutcome \in {"flow_file_not_found", "flow_error", "no_valid_creds"}

C21_Witness ==
    /\ pc = "done"
    /\ refreshRaised
    /\ grantCalls = 1
    /\ grantResult = NoCreds
    /\ authOutcome = "no_valid_creds"
    /\ tokenFile = tokenFile0

\* C22: when build() raises, authenticate_gmail returns None although the
\* credential it holds is valid; build() has been called exactly once, and
\* main ends without a call of fetch_inbox_emails or archive_emails: no list
\* and no modify request is issued.
C22_BuildFailureAborts ==
    authOutcome = "build_error" =>
        /\ service = NoService
        /\ creds # NoCreds
        /\ creds.valid
        /\ buildCalls = 1
        /\ pc \in {"main_auth", "done"}
        /\ fetchCalls = 0
        /\ pageCalls = 0
        /\ archiveCalls = 0
        /\ modifyCalls = <<>>
        /\ labels = labels0

C22_Witness ==
    /\ pc = "done"
    /\ authOutcome = "build_error"
    /\ LoadedValid
    /\ creds = tokenFile0.creds
    /\ pages[1].msgs # <<>>
    /\ pageCalls = 0

\* C23: creds.refresh is called at most once, and only in a run whose loaded
\* credential is not valid, expired and has a refresh token; a loaded
\* credential that is not valid and not refreshable is dropped without a
\* refresh, and the run goes to the credentials.json check with no
\* credential: it ends there when the file is missing, and else starts the
\* grant flow.
LoadedInvalidNotRefreshable ==
    /\ tokenFile0.state = "ok"
    /\ ~tokenFile0.creds.valid
    /\ ~(tokenFile0.creds.expired /\ tokenFile0.creds.refresh_token)

C23_RefreshOnlyWhenRefreshable ==
    /\ refreshCalls <= 1
    /\ pc = "auth_refresh" => refreshCalls = 0
    /\ (refreshCalls = 1 \/ pc = "auth_refresh") => LoadedExpiredRefreshable
    /\ (entry = "main" /\ LoadedInvalidNotRefreshable) =>
          /\ refreshCalls = 0
          /\ pc # "auth_refresh"
          /\ pc = "auth_flow_check" => creds = NoCreds
          /\ (AuthReturned /\ ~configExists) =>
                (authOutcome = "missing_config" /\ grantCalls = 0)
          /\ (AuthReturned /\ configExists) =>
                (grantCalls = 1 \/ authOutcome \in {"flow_file_not_found", "flow_error"})
          /\ service.built => service = ServiceFor(grantResult)

C23_Witness ==
    /\ AuthReturned
    /\ LoadedInvalidNotRefreshable
    /\ tokenFile0.creds.expired
    /\ refreshCalls = 0
    /\ grantCalls = 1
    /\ service.built

\* C24: a token.json that cannot be loaded leaves the run where a missing
\* token.json leaves it: after the load there is no credential and nothing
\* to save, no refresh is attempted, and the run goes to the credentials.json
\* check and the grant flow.  The outcome of authenticate_gmail is then what
\* the configuration file and the flow decide, by one rule for both kinds of
\* start: missing configuration; a flow that failed; a credential from the
\* flow, written to token.json and, when valid, handed to build().
NothingLoadable == entry = "main" /\ tokenFile0.state \in {"absent", "corrupt"}

C24_LoadFailureLikeAbsent ==
    NothingLoadable =>
        /\ pc = "auth_check" => (creds = NoCreds /\ ~creds_were_modified_and_need_saving)
        /\ pc = "auth_flow_check" => creds = NoCreds
        /\ pc # "auth_refresh"
        /\ refreshCalls = 0
        /\ (AuthReturned /\ ~configExists) =>
              /\ authOutcome = "missing_config"
              /\ grantCalls = 0
              /\ tokenFile = tokenFile0
        /\ (AuthReturned /\ configExists /\ grantCalls = 0) =>
              authOutcome \in {"flow_file_not_found", "flow_error"}
        /\ (AuthReturned /\ configExists /\ grantCalls = 1 /\ grantResult = NoCreds) =>
              authOutcome \in {"flow_error", "no_valid_creds"}
        /\ (AuthReturned /\ grantResult # NoCreds) =>
              /\ configExists
              /\ grantCalls = 1
              /\ creds = grantResult
              /\ writeCalls = 1
              /\ ~writeRaised => tokenFile = TokenHolding(grantResult)
              /\ IF grantResult.valid
                 THEN /\ authOutcome \in {"ok", "build_error"}
                      /\ authOutcome = "ok" => service = ServiceFor(grantResult)
                 ELSE authOutcome = "no_valid_creds"

C24_Witness ==
    /\ entry = "main"
    /\ AuthReturned
    /\ tokenFile0 = TokenCorrupt
    /\ grantCalls = 1
    /\ authOutcome = "ok"
    /\ service = ServiceFor(grantResult)
    /\ tokenFile = TokenHolding(grantResult)

\* C25 as stated: in a run of main every modify request targets an
\* identifier of the listing this run returned, the run ends with as many
\* modify requests as the listing is long, and a modify request is issued
\* only after authentication has yielded a service and the listing has
\* returned having requested the chain up to its last page (stated for the
\* mailboxes whose last page holds messages).
LastPageReached == pageCalls = Len(pages)

C25_ModifyOnlyAfterFullListing ==
    (entry = "main" /\ pages[Len(pages)].msgs # <<>>) =>
        /\ \A k \in DOMAIN modifyCalls :
              \E j \in DOMAIN inbox_message_ids : inbox_message_ids[j] = modifyCalls[k]
        /\ pc = "done" => Len(modifyCalls) = Len(inbox_message_ids)
        /\ modifyCalls # <<>> =>
              /\ service.built
              /\ FetchReturned
              /\ LastPageReached

\* C26: token.json is written in at most one attempt per run, and only in a
\* run whose refresh returned or whose grant flow returned a credential; the
\* credential handed to the write is the one the run holds from then on (the
\* one a service is built with), and token.json holds it unless the write
\* raised.  A run without such a refresh or grant, and so any run that
\* neither refreshed nor ran the grant flow, leaves token.json as it was.
C26_TokenWrittenOnceAfterChange ==
    /\ writeCalls <= 1
    /\ writeCalls = 1 =>
          /\ RefreshReturned \/ grantResult # NoCreds
          /\ creds # NoCreds
          /\ creds.src = (IF grantResult # NoCreds THEN "grant" ELSE "refresh")
          /\ grantResult # NoCreds => creds = grantResult
          /\ ~writeRaised => tokenFile = TokenHolding(creds)
          /\ writeRaised => tokenFile \in {tokenFile0, TokenCorrupt}
          /\ service.built => service = ServiceFor(creds)
    /\ writeCalls = 0 => tokenFile = tokenFile0
    /\ (~RefreshReturned /\ grantResult = NoCreds) => writeCalls = 0
    /\ (refreshCalls = 0 /\ grantCalls = 0) => (writeCalls = 0 /\ tokenFile = tokenFile0)

C26_Witness ==
    /\ pc = "done"
    /\ tokenFile0.state = "ok"
    /\ refreshRaised
    /\ writeCalls = 1
    /\ ~writeRaised
    /\ creds.src = "grant"
    /\ tokenFile = TokenHolding(creds)
    /\ service = ServiceFor(creds)
    /\ modifyCalls # <<>>

====
